---------------------------- MODULE Spec2Model ----------------------------
(***************************************************************************)
(* YouTube-style key bindings for the Spicetify player.                    *)
(*                                                                         *)
(* The repository holds two revisions of the extension:                    *)
(*   "v1"  src/youtubekeybinds.js   (1.7.0) one document keydown listener  *)
(*   "v2"  src/unnamed/part_001     (2.0.0) one Spicetify.Keyboard         *)
(*                                  shortcut callback per binding          *)
(* Both are modelled; the variable version says which one is loaded.       *)
(*                                                                         *)
(* Units: times and positions are milliseconds, volumes are hundredths     *)
(* (the host's 0.05 is 5, its 1 is 100).  An argument passed to the host   *)
(* is the exact rational num/den, so (d / 10) * duration is not rounded.   *)
(***************************************************************************)
EXTENDS Integers, Sequences, FiniteSets

VARIABLES
    version,        \* which revision of the extension is loaded
    activeElement,  \* document.activeElement
    popupOpen,      \* what Spicetify?.PopupModal?.isOpen?.() reports
    notifyFails,    \* Spicetify.showNotification throws when called
    hasToggleMute,  \* typeof Spicetify.Player.toggleMute === "function"
    duration,       \* what Spicetify.Player.getDuration() reports
    progress,       \* what Spicetify.Player.getProgress() reports
    volume,         \* what Spicetify.Player.getVolume() reports
    muted,          \* the host's mute flag
    now,            \* what Date.now() reports
    lastVolChange,  \* lastVolumeChangeTimestamp (v1) / lastVolChange (v2)
    ev,             \* the keydown event that has just been handled
    dispatched,     \* the binding whose code ran for ev ("none" if none)
    calls,          \* the host calls made while handling ev, in order
    prevented,      \* event.preventDefault() was called on ev (HANDLED)
    threw,          \* an exception left the handler of ev
    prevCommit,     \* history: time of the committed volume change before the last
    lastCommit,     \* history: time of the last committed volume change
    spicetify,      \* how much of the host exists: see HostStates
    regFailing,     \* the bindings for which Spicetify.Keyboard.registerShortcut throws
    pendingRuns,    \* scheduled runs of youtubeKeybinds (the IIFE call, a retry timer)
    retries,        \* retries scheduled so far
    installed,      \* how many times the key handlers have been installed
    crashed,        \* an exception left youtubeKeybinds
    registered,     \* v2: the bindings whose shortcut is registered
    logged          \* v2: the bindings whose registration failure was logged

envVars  == <<version, activeElement, popupOpen, notifyFails, hasToggleMute,
              duration, progress>>
hostVars == <<volume, muted>>
obsVars  == <<ev, dispatched, calls, prevented, threw>>
histVars == <<prevCommit, lastCommit>>
startVars == <<spicetify, regFailing, pendingRuns, retries, installed, crashed,
               registered, logged>>
vars     == <<envVars, hostVars, now, lastVolChange, obsVars, histVars, startVars>>

---------------------------------------------------------------------------
(* Program constants *)

SEEK_SMALL_MS      == 5000
SEEK_BIG_MS        == 10000
VOLUME_STEP        == 5
VOLUME_THROTTLE_MS == 100
VOLUME_FULL        == 100
UNMUTE_LEVEL       == 50

(* Bounds of the model *)

StartTime  == 1000     \* Date.now() when the extension is loaded
MaxElapsed == 303      \* the clock is followed this long after StartTime
StartVolume == 50      \* the host's volume when the extension is loaded
NoTime     == 0 - 1    \* "no committed volume change yet" in the history

TickSteps  == {99, 100, 101}
Durations  == {0, 8000}
Progresses == {0, 4000, 20000}
InitVolumes == {0, 50, 100}

Elements == {"null", "BODY", "INPUT", "TEXTAREA", "DIV_EDITABLE"}

DigitChars == <<"0", "1", "2", "3", "4", "5", "6", "7", "8", "9">>
Digits     == {DigitChars[i] : i \in 1..10}
ArrowKeys  == {"ArrowLeft", "ArrowRight", "ArrowUp", "ArrowDown"}
LowerKeys  == {"j", "k", "l", "m", "n", "p", "x"}
UpperKeys  == {"J", "K", "L", "M", "N", "P"}
RawKeys    == ArrowKeys \cup LowerKeys \cup UpperKeys \cup Digits

Modifiers  == {"none", "ctrl", "alt", "meta"}

KeyEvent(k, s, m) ==
    [key |-> k, shiftKey |-> s,
     ctrlKey |-> (m = "ctrl"), altKey |-> (m = "alt"), metaKey |-> (m = "meta")]

NoEvent == KeyEvent("", FALSE, "none")

Events       == {KeyEvent(k, s, m) : k \in RawKeys, s \in BOOLEAN, m \in Modifiers}
VolumeEvents == {KeyEvent(k, FALSE, "none") : k \in {"ArrowUp", "ArrowDown", "x"}}

---------------------------------------------------------------------------
(* The DOM and the host *)

TagName(el) == IF el = "DIV_EDITABLE" THEN "DIV" ELSE el

IsContentEditable(el) == el = "DIV_EDITABLE"

\* String.prototype.toLowerCase on event.key
ToLowerCase(k) ==
    CASE k = "ArrowLeft"  -> "arrowleft"
      [] k = "ArrowRight" -> "arrowright"
      [] k = "ArrowUp"    -> "arrowup"
      [] k = "ArrowDown"  -> "arrowdown"
      [] k = "J" -> "j"
      [] k = "K" -> "k"
      [] k = "L" -> "l"
      [] k = "M" -> "m"
      [] k = "N" -> "n"
      [] k = "P" -> "p"
      [] OTHER   -> k

\* /^[0-9]$/.test(key)
IsDigitKey(k) == k \in Digits

\* parseInt(key) of a one-digit key
ParseInt(k) == (CHOOSE i \in 1..10 : DigitChars[i] = k) - 1

Max(a, b) == IF a >= b THEN a ELSE b
Min(a, b) == IF a <= b THEN a ELSE b

\* One call on the host with the argument num/den (0/1 when it takes none).
Call(op, num, den) == [op |-> op, num |-> num, den |-> den]
Get(op)            == Call(op, 0, 1)

PlayerOps   == {"getDuration", "getProgress", "getVolume", "isPlaying", "seek",
                "setVolume", "togglePlay", "toggleMute", "next", "back"}
ChangingOps == {"seek", "setVolume", "togglePlay", "toggleMute", "next", "back"}

\* getPlayerState (v1) / getState (v2): both getters are read, falsy reads as 0
GetStateCalls == <<Get("getDuration"), Get("getProgress")>>

\* The effect of one host call on the host's volume and mute flag.
HostStep(h, c) ==
    CASE c.op = "setVolume"  -> [h EXCEPT !.volume = c.num]
      [] c.op = "toggleMute" -> [h EXCEPT !.muted = ~h.muted]
      [] OTHER               -> h

RECURSIVE HostAfter(_, _)
HostAfter(h, cs) ==
    IF cs = <<>> THEN h ELSE HostAfter(HostStep(h, Head(cs)), Tail(cs))

\* What a handler run leaves behind.
Outcome(cs, handled, exc, action, last) ==
    [calls |-> cs, prevented |-> handled, threw |-> exc, action |-> action,
     last |-> last]

Untouched == Outcome(<<>>, FALSE, FALSE, "none", lastVolChange)


---------------------------------------------------------------------------
(* v1: src/youtubekeybinds.js *)

\* const isTyping = activeElement && (INPUT || TEXTAREA || isContentEditable)
V1IsTyping ==
    /\ activeElement # "null"
    /\ \/ TagName(activeElement) = "INPUT"
       \/ TagName(activeElement) = "TEXTAREA"
       \/ IsContentEditable(activeElement)

\* the early return on Ctrl / Meta / Alt or an open popup modal
V1Ignored(e) == (e.ctrlKey \/ e.metaKey \/ e.altKey) \/ popupOpen

\* the throttle test of handleVolumeChange
V1ThrottlePassed == now - lastVolChange > VOLUME_THROTTLE_MS

\* Math.min(currentVolume + VOLUME_STEP, 1) / Math.max(currentVolume - VOLUME_STEP, 0)
V1NewVolume(increase, currentVolume) ==
    IF increase THEN Min(currentVolume + VOLUME_STEP, VOLUME_FULL)
                ELSE Max(currentVolume - VOLUME_STEP, 0)

\* Faulty variant of V1HandleVolumeChange: a throttled attempt restarts the
\* throttle window.
V1HandleVolumeChangeStamps(increase, action) ==
    IF V1ThrottlePassed
    THEN Outcome(<<Get("getVolume"),
                   Call("setVolume", V1NewVolume(increase, volume), VOLUME_FULL)>>,
                 TRUE, FALSE, action, now)
    ELSE Outcome(<<>>, TRUE, FALSE, action, now)

\* handleVolumeChange(increase), called from the arrowup / arrowdown cases
V1HandleVolumeChange(increase, action) ==
    IF V1ThrottlePassed
    THEN Outcome(<<Get("getVolume"),
                   Call("setVolume", V1NewVolume(increase, volume), VOLUME_FULL)>>,
                 TRUE, FALSE, action, now)
    ELSE Outcome(<<>>, TRUE, FALSE, action, lastVolChange)

\* the position the arrowleft / j cases pass to seek
V1SeekBackTarget(delta) == Max(progress - delta, 0)

\* the position the arrowright / l cases pass to seek
V1SeekForwardTarget(delta) == Min(progress + delta, duration)

V1Seek(target, action) ==
    Outcome(GetStateCalls \o <<Call("seek", target, 1)>>, TRUE, FALSE, action,
            lastVolChange)

\* Faulty variant of V1Digit: handled is not reset for a key that is no digit.
V1DigitKeepsHandled(key) ==
    IF IsDigitKey(key)
    THEN IF duration > 0
         THEN Outcome(GetStateCalls
                        \o <<Call("seek", ParseInt(key) * duration, 10)>>,
                      TRUE, FALSE, "jump", lastVolChange)
         ELSE Outcome(GetStateCalls, FALSE, FALSE, "jump", lastVolChange)
    ELSE Outcome(<<>>, TRUE, FALSE, "none", lastVolChange)

\* the default branch of the inner switch: the digit keys
V1Digit(key) ==
    IF IsDigitKey(key)
    THEN IF duration > 0
         THEN Outcome(GetStateCalls
                        \o <<Call("seek", ParseInt(key) * duration, 10)>>,
                      TRUE, FALSE, "jump", lastVolChange)
         ELSE Outcome(GetStateCalls, FALSE, FALSE, "jump", lastVolChange)
    ELSE Untouched

\* Faulty variant of V1Simple: the case falls through and the method is called
\* a second time.
V1SimpleTwice(op, action, present) ==
    IF present
    THEN Outcome(<<Get(op), Get(op)>>, TRUE, FALSE, action, lastVolChange)
    ELSE Outcome(<<>>, FALSE, TRUE, action, lastVolChange)

\* a host method with no argument; calling a method the host lacks throws
V1Simple(op, action, present) ==
    IF present
    THEN Outcome(<<Get(op)>>, TRUE, FALSE, action, lastVolChange)
    ELSE Outcome(<<>>, FALSE, TRUE, action, lastVolChange)

\* the inner switch: the keys that are disabled while typing
V1WhenNotTyping(e, key) ==
    CASE key = "j" -> V1Seek(V1SeekBackTarget(SEEK_BIG_MS), "seekBackBig")
      [] key = "l" -> V1Seek(V1SeekForwardTarget(SEEK_BIG_MS), "seekForwardBig")
      [] key = "k" -> V1Simple("togglePlay", "togglePlay", TRUE)
      [] key = "m" -> V1Simple("toggleMute", "toggleMute", hasToggleMute)
      [] key = "n" -> IF e.shiftKey THEN V1Simple("next", "nextTrack", TRUE)
                                    ELSE Untouched
      [] key = "p" -> IF e.shiftKey THEN V1Simple("back", "prevTrack", TRUE)
                                    ELSE Untouched
      [] OTHER     -> V1Digit(key)

\* the keydown listener
V1Keydown(e) ==
    LET key == ToLowerCase(e.key) IN
    IF V1Ignored(e) THEN Untouched
    ELSE CASE key = "arrowleft"  ->
                V1Seek(V1SeekBackTarget(SEEK_SMALL_MS), "seekBackSmall")
           [] key = "arrowright" ->
                V1Seek(V1SeekForwardTarget(SEEK_SMALL_MS), "seekForwardSmall")
           [] key = "arrowup"    -> V1HandleVolumeChange(TRUE, "volumeUp")
           [] key = "arrowdown"  -> V1HandleVolumeChange(FALSE, "volumeDown")
           [] OTHER -> IF V1IsTyping THEN Untouched ELSE V1WhenNotTyping(e, key)

---------------------------------------------------------------------------
(* v2: src/unnamed/part_001 *)

\* keyMap: the key descriptor of each action
Bindings ==
    {"seekBackSmall", "seekForwardSmall", "volumeUp", "volumeDown", "seekBackBig",
     "seekForwardBig", "togglePlay", "toggleMute", "nextTrack", "prevTrack", "jump"}

KeyMapKeys(name) ==
    CASE name = "seekBackSmall"    -> {"left"}
      [] name = "seekForwardSmall" -> {"right"}
      [] name = "volumeUp"         -> {"up"}
      [] name = "volumeDown"       -> {"down"}
      [] name = "seekBackBig"      -> {"j"}
      [] name = "seekForwardBig"   -> {"l"}
      [] name = "togglePlay"       -> {"k"}
      [] name = "toggleMute"       -> {"m"}
      [] name = "nextTrack"        -> {"n"}
      [] name = "prevTrack"        -> {"p"}
      [] name = "jump"             -> Digits      \* jump0 .. jump9

KeyMapShift(name) == name \in {"nextTrack", "prevTrack"}

\* The name Spicetify.Keyboard gives the key of a keydown event.
KeyboardKey(k) ==
    CASE k = "ArrowLeft"  -> "left"
      [] k = "ArrowRight" -> "right"
      [] k = "ArrowUp"    -> "up"
      [] k = "ArrowDown"  -> "down"
      [] OTHER            -> ToLowerCase(k)

\* Spicetify.Keyboard runs the callback registered for a descriptor on a keydown
\* of that key with that Shift state; Ctrl, Alt and Meta reach the callback.
Matches(name, e) ==
    /\ KeyboardKey(e.key) \in KeyMapKeys(name)
    /\ e.shiftKey = KeyMapShift(name)

\* Faulty variant of IsTypingContext: the isContentEditable test is forgotten.
IsTypingContextTagsOnly ==
    IF activeElement = "null" THEN FALSE
    ELSE \/ TagName(activeElement) = "INPUT"
         \/ TagName(activeElement) = "TEXTAREA"

\* isTypingContext()
IsTypingContext ==
    IF activeElement = "null" THEN FALSE
    ELSE \/ TagName(activeElement) = "INPUT"
         \/ TagName(activeElement) = "TEXTAREA"
         \/ IsContentEditable(activeElement)

\* Faulty variant of AllowWhileTyping: the arrow bindings are registered as allowed.
AllowArrowsWhileTyping(name) ==
    name \in {"seekBackSmall", "seekForwardSmall", "volumeUp", "volumeDown"}

\* register(name, def, handler): no registration passes allowWhileTyping
AllowWhileTyping(name) == FALSE

\* Faulty variant of V2ModifierHeld: the metaKey test is forgotten.
V2ModifierHeldNoMeta(e) == e.ctrlKey \/ e.altKey

\* the Ctrl / Alt / Meta return of the shortcut callback
V2ModifierHeld(e) == e.ctrlKey \/ e.altKey \/ e.metaKey

\* Spicetify.showNotification(...): the call is made, and throws if the host's
\* notification facility fails
Notified(cs) == [calls |-> Append(cs, Get("showNotification")), threw |-> notifyFails]
Silent(cs)   == [calls |-> cs, threw |-> FALSE]

\* the throttle test of changeVolume
V2Throttled == now - lastVolChange < VOLUME_THROTTLE_MS

\* Faulty variant of V2NextVolume: the step is applied without the clamp.
V2NextVolumeUnclamped(increase, cur) ==
    IF increase THEN cur + VOLUME_STEP ELSE cur - VOLUME_STEP

\* Math.min(cur + VOLUME_STEP, 1.0) / Math.max(cur - VOLUME_STEP, 0.0)
V2NextVolume(increase, cur) ==
    IF increase THEN Min(cur + VOLUME_STEP, VOLUME_FULL)
                ELSE Max(cur - VOLUME_STEP, 0)

\* changeVolume(increase)
ChangeVolume(increase) ==
    IF V2Throttled THEN Silent(<<>>)
    ELSE Notified(<<Get("getVolume"),
                    Call("setVolume", V2NextVolume(increase, volume), VOLUME_FULL)>>)

\* Faulty variant of ChangeVolumeLast: the time of the change is never recorded.
ChangeVolumeLastStale == lastVolChange

\* lastVolChange after changeVolume
ChangeVolumeLast == IF V2Throttled THEN lastVolChange ELSE now

\* Faulty variant of ToggleMuteSafe: the volume fallback runs after the native
\* toggle as well.
ToggleMuteSafeBoth ==
    IF hasToggleMute
    THEN Notified(<<Get("toggleMute"), Get("getVolume"),
                    Call("setVolume", IF volume > 0 THEN 0 ELSE UNMUTE_LEVEL,
                         VOLUME_FULL)>>)
    ELSE Notified(<<Get("getVolume"),
                    Call("setVolume", IF volume > 0 THEN 0 ELSE UNMUTE_LEVEL,
                         VOLUME_FULL)>>)

\* toggleMuteSafe()
ToggleMuteSafe ==
    IF hasToggleMute THEN Notified(<<Get("toggleMute")>>)
    ELSE IF volume > 0
         THEN Notified(<<Get("getVolume"), Call("setVolume", 0, VOLUME_FULL)>>)
         ELSE Notified(<<Get("getVolume"),
                         Call("setVolume", UNMUTE_LEVEL, VOLUME_FULL)>>)

V2SeekBackTarget(delta)    == Max(progress - delta, 0)
V2SeekForwardTarget(delta) == Min(progress + delta, duration)

\* Faulty variant of V2Seek: no seek without a track, as the jump handlers do.
V2SeekIfTrack(target) ==
    IF duration > 0 THEN Notified(GetStateCalls \o <<Call("seek", target, 1)>>)
    ELSE Silent(GetStateCalls)

V2Seek(target) == Notified(GetStateCalls \o <<Call("seek", target, 1)>>)

\* Faulty variant of V2Jump: the digit is taken as a percentage, not as tenths.
V2JumpPercent(d) ==
    IF duration > 0
    THEN Notified(GetStateCalls \o <<Call("seek", d * duration, 100)>>)
    ELSE Silent(GetStateCalls)

\* the jump handler of digit d
V2Jump(d) ==
    IF duration > 0
    THEN Notified(GetStateCalls \o <<Call("seek", d * duration, 10)>>)
    ELSE Silent(GetStateCalls)

\* the handler registered under name, run for event e
V2Handler(name, e) ==
    CASE name = "seekBackSmall"    -> V2Seek(V2SeekBackTarget(SEEK_SMALL_MS))
      [] name = "seekForwardSmall" -> V2Seek(V2SeekForwardTarget(SEEK_SMALL_MS))
      [] name = "volumeUp"         -> ChangeVolume(TRUE)
      [] name = "volumeDown"       -> ChangeVolume(FALSE)
      [] name = "seekBackBig"      -> V2Seek(V2SeekBackTarget(SEEK_BIG_MS))
      [] name = "seekForwardBig"   -> V2Seek(V2SeekForwardTarget(SEEK_BIG_MS))
      [] name = "togglePlay"       ->
            Notified(<<Get("togglePlay"), Get("isPlaying")>>)
      [] name = "toggleMute"       -> ToggleMuteSafe
      [] name = "nextTrack"        -> Notified(<<Get("next")>>)
      [] name = "prevTrack"        -> Notified(<<Get("back")>>)
      [] name = "jump"             -> V2Jump(ParseInt(KeyboardKey(e.key)))

\* the callback register() hands to Spicetify.Keyboard.registerShortcut
V2Callback(name, e) ==
    IF ~AllowWhileTyping(name) /\ IsTypingContext THEN Untouched
    ELSE IF V2ModifierHeld(e) THEN Untouched
    ELSE LET h == V2Handler(name, e)
             last == IF name \in {"volumeUp", "volumeDown"}
                     THEN ChangeVolumeLast ELSE lastVolChange
         IN  Outcome(h.calls, ~h.threw, h.threw, name, last)

\* a keydown as Spicetify.Keyboard sees it: the callbacks of the matching bindings
V2Keydown(e) ==
    LET hit == {name \in registered : Matches(name, e)} IN
    IF hit = {} THEN Untouched
    ELSE V2Callback(CHOOSE name \in hit : TRUE, e)

---------------------------------------------------------------------------
(* The state machine *)

HasCall(cs, op) == \E i \in 1..Len(cs) : cs[i].op = op

CountCalls(cs, op) == Cardinality({i \in 1..Len(cs) : cs[i].op = op})

\* A committed volume change: the volume action ran and called setVolume.
Committed(r) == r.action \in {"volumeUp", "volumeDown"} /\ HasCall(r.calls, "setVolume")

\* The keydown e has been handled with outcome r: the host has executed the calls.
Handled(e, r) ==
    /\ ev' = e
    /\ dispatched' = r.action
    /\ calls' = r.calls
    /\ prevented' = r.prevented
    /\ threw' = r.threw
    /\ lastVolChange' = r.last
    /\ LET h == HostAfter([volume |-> volume, muted |-> muted], r.calls)
       IN  volume' = h.volume /\ muted' = h.muted
    /\ prevCommit' = IF Committed(r) THEN lastCommit ELSE prevCommit
    /\ lastCommit' = IF Committed(r) THEN now ELSE lastCommit
    /\ UNCHANGED <<envVars, now, startVars>>

\* No keydown is being handled: the event loop is idle.
Idle == ev = NoEvent

\* The listener has returned; the event loop is idle again.
EventDone ==
    /\ ~Idle
    /\ ev' = NoEvent
    /\ dispatched' = "none"
    /\ calls' = <<>>
    /\ prevented' = FALSE
    /\ threw' = FALSE
    /\ UNCHANGED <<envVars, hostVars, now, lastVolChange, histVars, startVars>>

\* v1: the document's keydown listener runs for e
KeydownListener(e) ==
    /\ Idle
    /\ version = "v1"
    /\ installed > 0
    /\ Handled(e, V1Keydown(e))

\* v2: Spicetify.Keyboard handles the keydown e
ShortcutKeydown(e) ==
    /\ Idle
    /\ version = "v2"
    /\ installed > 0
    /\ Handled(e, V2Keydown(e))

\* the focus moves to another element
Focus(el) ==
    /\ Idle
    /\ el # activeElement
    /\ activeElement' = el
    /\ UNCHANGED <<obsVars, version, popupOpen, notifyFails, hasToggleMute, duration, progress,
                   hostVars, now, lastVolChange, histVars, startVars>>

\* a popup modal opens or closes
PopupChange ==
    /\ Idle
    /\ popupOpen' = ~popupOpen
    /\ UNCHANGED <<obsVars, version, activeElement, notifyFails, hasToggleMute, duration,
                   progress, hostVars, now, lastVolChange, histVars, startVars>>

\* the notification facility breaks or recovers
NotificationChange ==
    /\ Idle
    /\ notifyFails' = ~notifyFails
    /\ UNCHANGED <<obsVars, version, activeElement, popupOpen, hasToggleMute, duration,
                   progress, hostVars, now, lastVolChange, histVars, startVars>>

\* the host reports another track length and playback position
HostReport(d, p) ==
    /\ Idle
    /\ <<d, p>> # <<duration, progress>>
    /\ duration' = d
    /\ progress' = p
    /\ UNCHANGED <<obsVars, version, activeElement, popupOpen, notifyFails, hasToggleMute,
                   hostVars, now, lastVolChange, histVars, startVars>>

\* time passes
Tick(d) ==
    /\ Idle
    /\ now + d <= StartTime + MaxElapsed
    /\ now' = now + d
    /\ UNCHANGED <<obsVars, envVars, hostVars, lastVolChange, histVars, startVars>>

InitCommon ==
    /\ version \in {"v1", "v2"}
    /\ hasToggleMute = TRUE
    /\ muted = FALSE
    /\ now = StartTime
    /\ lastVolChange = 0
    /\ ev = NoEvent
    /\ dispatched = "none"
    /\ calls = <<>>
    /\ prevented = FALSE
    /\ threw = FALSE
    /\ prevCommit = NoTime
    /\ lastCommit = NoTime

\* The extension is loaded on a ready host: youtubeKeybinds has run once and has
\* installed the key handlers, every shortcut registered.
Loaded ==
    /\ spicetify = "ready"
    /\ regFailing = {}
    /\ pendingRuns = 0
    /\ retries = 0
    /\ installed = 1
    /\ crashed = FALSE
    /\ registered = IF version = "v2" THEN Bindings ELSE {}
    /\ logged = {}

\* Key dispatch: every key, focus, popup and player state; the clock stands still.
Init ==
    /\ InitCommon
    /\ Loaded
    /\ activeElement = "BODY"
    /\ popupOpen = FALSE
    /\ notifyFails = FALSE
    /\ duration \in Durations
    /\ progress \in Progresses
    /\ volume = StartVolume

Next ==
    \/ \E e \in Events : KeydownListener(e)
    \/ \E e \in Events : ShortcutKeydown(e)
    \/ \E el \in Elements : Focus(el)
    \/ NotificationChange
    \/ PopupChange
    \/ \E d \in Durations, p \in Progresses : HostReport(d, p)
    \/ EventDone

Spec == Init /\ [][Next]_vars

\* The volume throttle: the volume keys against the clock.
InitVolume ==
    /\ InitCommon
    /\ Loaded
    /\ activeElement = "BODY"
    /\ popupOpen = FALSE
    /\ notifyFails \in BOOLEAN
    /\ duration = 0
    /\ progress = 0
    /\ volume \in InitVolumes

NextVolume ==
    \/ \E e \in VolumeEvents : KeydownListener(e)
    \/ \E e \in VolumeEvents : ShortcutKeydown(e)
    \/ \E d \in TickSteps : Tick(d)
    \/ EventDone

SpecVolume == InitVolume /\ [][NextVolume]_vars

----------------------------------------------------------------------------
(* Sound: the volume keys and the mute key, on a host with or without
   Spicetify.Player.toggleMute, with the clock running *)

SoundEvents == {KeyEvent(k, FALSE, "none") : k \in {"ArrowUp", "ArrowDown", "m", "x"}}

InitSound ==
    /\ version \in {"v1", "v2"}
    /\ hasToggleMute \in BOOLEAN
    /\ muted = FALSE
    /\ now = StartTime
    /\ lastVolChange = 0
    /\ ev = NoEvent
    /\ dispatched = "none"
    /\ calls = <<>>
    /\ prevented = FALSE
    /\ threw = FALSE
    /\ prevCommit = NoTime
    /\ lastCommit = NoTime
    /\ Loaded
    /\ activeElement = "BODY"
    /\ popupOpen = FALSE
    /\ notifyFails \in BOOLEAN
    /\ duration = 0
    /\ progress = 0
    /\ volume \in InitVolumes

NextSound ==
    \/ \E e \in SoundEvents : KeydownListener(e)
    \/ \E e \in SoundEvents : ShortcutKeydown(e)
    \/ \E d \in TickSteps : Tick(d)
    \/ EventDone

SpecSound == InitSound /\ [][NextSound]_vars

----------------------------------------------------------------------------
(* Startup: the IIFE youtubeKeybinds, its retry timer and, in v2, the
   registration of the shortcuts *)

RETRY_DELAY_MS == 1000

MaxRetries == 3

\* How much of the host exists when youtubeKeybinds runs:
\*   "undeclared"  no global Spicetify at all (window.Spicetify is absent)
\*   "undefined"   the global exists and holds undefined
\*   "noPlayer"    Spicetify is an object without Player
\*   "noKeyboard"  Spicetify.Player exists, Spicetify.Keyboard does not
\*   "ready"       Spicetify.Player and Spicetify.Keyboard exist
HostStates == {"undeclared", "undefined", "noPlayer", "noKeyboard", "ready"}

HostRank(h) ==
    CASE h = "undeclared" -> 0
      [] h = "undefined"  -> 1
      [] h = "noPlayer"   -> 2
      [] h = "noKeyboard" -> 3
      [] h = "ready"      -> 4

\* v1 reads the bare identifier Spicetify: with no such global the read throws
\* a ReferenceError before the test is made.
V1CheckThrows == spicetify = "undeclared"

\* v1: !Spicetify || !Spicetify.Player
V1HostMissing == spicetify \in {"undefined", "noPlayer"}

\* v2: !window.Spicetify || !Spicetify.Player || !Spicetify.Keyboard
V2HostMissing == spicetify \in {"undeclared", "undefined", "noPlayer", "noKeyboard"}

\* the register(...) calls in the order they are made; jump0 .. jump9 as one
BindingOrder ==
    <<"seekBackSmall", "seekForwardSmall", "volumeUp", "volumeDown", "seekBackBig",
      "seekForwardBig", "togglePlay", "toggleMute", "nextTrack", "prevTrack", "jump">>

\* register(name, ...): registerShortcut inside try, console.error in catch
Register(name, acc) ==
    IF name \in regFailing
    THEN [registered |-> acc.registered, logged |-> acc.logged \cup {name}]
    ELSE [registered |-> acc.registered \cup {name}, logged |-> acc.logged]

\* Faulty variant of RegisterAll: the first failure ends the registration.
RECURSIVE RegisterAllAbort(_, _)
RegisterAllAbort(i, acc) ==
    IF i > Len(BindingOrder) \/ acc.logged # {} THEN acc
    ELSE RegisterAllAbort(i + 1, Register(BindingOrder[i], acc))

\* the register calls from the i-th on
RECURSIVE RegisterAll(_, _)
RegisterAll(i, acc) ==
    IF i > Len(BindingOrder) THEN acc
    ELSE RegisterAll(i + 1, Register(BindingOrder[i], acc))

NoneRegistered == [registered |-> {}, logged |-> {}]

\* What one run of youtubeKeybinds does: throw, schedule a retry, or install.
StartupThrows  == version = "v1" /\ V1CheckThrows
StartupRetries ==
    \/ version = "v1" /\ ~V1CheckThrows /\ V1HostMissing
    \/ version = "v2" /\ V2HostMissing
StartupInstalls == ~StartupThrows /\ ~StartupRetries

\* One run of youtubeKeybinds: the call of the IIFE, or the retry timer firing
\* RETRY_DELAY_MS after it was set.
RunStartup ==
    /\ Idle
    /\ pendingRuns > 0
    /\ StartupRetries => retries < MaxRetries
    /\ now' = IF retries > 0 THEN now + RETRY_DELAY_MS ELSE now
    /\ crashed' = (crashed \/ StartupThrows)
    /\ pendingRuns' = IF StartupRetries THEN pendingRuns - 1 + 1 ELSE pendingRuns - 1
    /\ retries' = IF StartupRetries THEN retries + 1 ELSE retries
    /\ installed' = IF StartupInstalls THEN installed + 1 ELSE installed
    /\ registered' = IF StartupInstalls /\ version = "v2"
                     THEN RegisterAll(1, NoneRegistered).registered ELSE registered
    /\ logged' = IF StartupInstalls /\ version = "v2"
                 THEN RegisterAll(1, NoneRegistered).logged ELSE logged
    /\ UNCHANGED <<envVars, hostVars, lastVolChange, obsVars, histVars, spicetify,
                   regFailing>>

\* The host finishes loading a further part; what exists stays.
HostLoads(h) ==
    /\ Idle
    /\ HostRank(h) > HostRank(spicetify)
    /\ spicetify' = h
    /\ UNCHANGED <<envVars, hostVars, now, lastVolChange, obsVars, histVars,
                   regFailing, pendingRuns, retries, installed, crashed, registered,
                   logged>>

\* the sets of bindings whose registration the host may reject
FailingSets ==
    {{}} \cup {{b} : b \in Bindings} \cup {{"volumeUp", "togglePlay"}, Bindings}

\* one plain keydown for each binding, and one key that is not bound
StartupEvents ==
    {KeyEvent(k, FALSE, "none") :
        k \in {"ArrowLeft", "ArrowRight", "ArrowUp", "ArrowDown", "j", "l", "k", "m",
               "5", "x"}}
    \cup {KeyEvent(k, TRUE, "none") : k \in {"N", "P"}}

InitStartup ==
    /\ InitCommon
    /\ activeElement = "BODY"
    /\ popupOpen = FALSE
    /\ notifyFails = FALSE
    /\ duration = 8000
    /\ progress = 4000
    /\ volume = StartVolume
    /\ spicetify \in HostStates
    /\ regFailing \in FailingSets
    /\ pendingRuns = 1
    /\ retries = 0
    /\ installed = 0
    /\ crashed = FALSE
    /\ registered = {}
    /\ logged = {}

NextStartup ==
    \/ RunStartup
    \/ \E h \in HostStates : HostLoads(h)
    \/ \E e \in StartupEvents : KeydownListener(e)
    \/ \E e \in StartupEvents : ShortcutKeydown(e)
    \/ EventDone

SpecStartup == InitStartup /\ [][NextStartup]_vars

---------------------------------------------------------------------------
(* What the claims speak of, read off the keydown that has just been handled *)

Handling == ev # NoEvent

EvKey == ToLowerCase(ev.key)

AnyModifier == ev.ctrlKey \/ ev.altKey \/ ev.metaKey

\* the focused element is an INPUT, a TEXTAREA or contentEditable
TypingFocus == activeElement \in {"INPUT", "TEXTAREA", "DIV_EDITABLE"}

NoPlayerCall == \A i \in 1..Len(calls) : calls[i].op \notin PlayerOps

Seeks == {i \in 1..Len(calls) : calls[i].op = "seek"}

\* every seek made for ev has the position num / den
SeeksTo(num, den) == \A i \in Seeks : calls[i].num = num /\ calls[i].den = den

SeekKeys == {"arrowleft", "arrowright", "j", "l"}

SeekDelta == IF EvKey \in {"arrowleft", "arrowright"} THEN SEEK_SMALL_MS ELSE SEEK_BIG_MS

---------------------------------------------------------------------------
(* C1: a keydown with Ctrl, Alt or Meta held, whatever the key, the focus and
   the player state, calls no host player method and does not call
   preventDefault. *)
C1_ModifierIgnored ==
    (Handling /\ AnyModifier) => (NoPlayerCall /\ ~prevented)

C1_Witness ==
    /\ Handling /\ ev.metaKey /\ EvKey = "k"
    /\ ~TypingFocus /\ ~popupOpen /\ version = "v2"
    /\ calls = <<>> /\ ~prevented

(* C2: in a typing context (INPUT, TEXTAREA, contentEditable) a keydown of K, M,
   J, L, a digit, Shift+N or Shift+P calls no host player method and is left
   UNHANDLED. *)
TypingSensitiveKey ==
    \/ EvKey \in {"k", "m", "j", "l"} \cup Digits
    \/ EvKey \in {"n", "p"} /\ ev.shiftKey

C2_TypingSuppressed ==
    (Handling /\ TypingFocus /\ TypingSensitiveKey) => (NoPlayerCall /\ ~prevented)

C2_Witness ==
    /\ Handling /\ activeElement = "DIV_EDITABLE" /\ EvKey = "k"
    /\ ~AnyModifier /\ ~ev.shiftKey /\ ~popupOpen /\ version = "v2"
    /\ calls = <<>> /\ ~prevented

(* C3 as claimed: in a typing context with no Ctrl/Alt/Meta, ArrowLeft and
   ArrowRight still issue a host seek and ArrowUp and ArrowDown still run the
   volume-change action. *)
ArrowDispatched ==
    /\ EvKey \in {"arrowleft", "arrowright"} => Cardinality(Seeks) = 1
    /\ EvKey = "arrowup" => dispatched = "volumeUp"
    /\ EvKey = "arrowdown" => dispatched = "volumeDown"

C3_Original ==
    (Handling /\ TypingFocus /\ ~AnyModifier /\ ev.key \in ArrowKeys) => ArrowDispatched

(* C3 as amended: in a typing context with no Ctrl/Alt/Meta, the keydown
   listener of v1 still dispatches the four arrows (seek, volume change) and
   marks them HANDLED unless a popup modal is open; v2 registers the arrows
   without allowWhileTyping, so there (and in v1 under a popup modal) an arrow
   makes no host call and is left UNHANDLED. *)
C3_ArrowsWhileTyping ==
    (Handling /\ TypingFocus /\ ~AnyModifier /\ ev.key \in ArrowKeys) =>
        IF version = "v1" /\ ~popupOpen
        THEN ArrowDispatched /\ prevented
        ELSE calls = <<>> /\ dispatched = "none" /\ ~prevented

C3_Witness ==
    /\ Handling /\ version = "v1" /\ activeElement = "INPUT" /\ ev.key = "ArrowLeft"
    /\ ~AnyModifier /\ ~popupOpen
    /\ Cardinality(Seeks) = 1 /\ prevented

(* C4: any two consecutive committed volume changes are at least 100 ms apart,
   so two volume-change attempts less than 100 ms apart commit at most one
   setVolume. *)
C4_VolumeRateLimit ==
    prevCommit # NoTime => lastCommit - prevCommit >= VOLUME_THROTTLE_MS

C4_Witness ==
    /\ Handling /\ dispatched \in {"volumeUp", "volumeDown"}
    /\ HasCall(calls, "setVolume")
    /\ prevCommit # NoTime /\ lastCommit = now
    /\ lastCommit - prevCommit = VOLUME_THROTTLE_MS

(* C5: a volume-change attempt made 100 ms or more after the last committed
   volume change (exactly 100 ms included), or before any change was committed,
   commits a setVolume.  Read on the state after the attempt: an attempt that
   committed nothing came less than 100 ms after a committed change. *)
C5_AttemptCommits ==
    (Handling /\ dispatched \in {"volumeUp", "volumeDown"} /\ ~HasCall(calls, "setVolume"))
        => (lastCommit # NoTime /\ now - lastCommit < VOLUME_THROTTLE_MS)

(* C6: with a host-reported duration of 0, a digit key outside a typing context
   and without modifiers makes no seek and is left UNHANDLED. *)
C6_DigitNoTrack ==
    (Handling /\ duration = 0 /\ ev.key \in Digits /\ ~TypingFocus /\ ~AnyModifier)
        => (Seeks = {} /\ ~prevented)

(* C7 as claimed: with a host-reported duration of 0, ArrowLeft, ArrowRight, J
   and L make no seek and are left UNHANDLED. *)
C7_Original ==
    (Handling /\ duration = 0 /\ EvKey \in SeekKeys) => (Seeks = {} /\ ~prevented)

\* the seek key reaches its handler: v1 needs no popup modal, and no typing
\* context for J and L; v2 needs no typing context and the key without Shift
SeekKeyRuns ==
    /\ EvKey \in SeekKeys
    /\ ~AnyModifier
    /\ \/ version = "v1" /\ ~popupOpen /\ (ev.key \in ArrowKeys \/ ~TypingFocus)
       \/ version = "v2" /\ ~TypingFocus /\ ~ev.shiftKey

(* C7 as amended: with a host-reported duration of 0, a seek key that reaches
   its handler still issues exactly one host seek, to max(progress - delta, 0)
   for ArrowLeft and J and to min(progress + delta, 0) for ArrowRight and L, and
   the keydown listener of v1 marks it HANDLED. *)
C7_SeekNoTrack ==
    (Handling /\ duration = 0 /\ SeekKeyRuns) =>
        /\ Cardinality(Seeks) = 1
        /\ IF EvKey \in {"arrowleft", "j"}
           THEN SeeksTo(Max(progress - SeekDelta, 0), 1)
           ELSE SeeksTo(Min(progress + SeekDelta, 0), 1)
        /\ version = "v1" => prevented

C7_Witness ==
    /\ Handling /\ duration = 0 /\ version = "v2" /\ EvKey = "l" /\ SeekKeyRuns
    /\ Cardinality(Seeks) = 1 /\ SeeksTo(0, 1) /\ prevented

(* C8: for every duration D >= 0 and every progress the host can report, the
   position ArrowLeft / ArrowRight / J / L pass to seek lies in [0, D]. *)
C8_SeekInRange ==
    (Handling /\ EvKey \in SeekKeys) =>
        \A i \in Seeks : 0 <= calls[i].num /\ calls[i].num <= duration * calls[i].den

(* C9 as claimed: for every digit d and duration D > 0, pressing d with no
   modifiers outside a typing context issues exactly one seek, to (d / 10) * D. *)
DigitPressed ==
    /\ Handling /\ ev.key \in Digits /\ duration > 0
    /\ ~AnyModifier /\ ~ev.shiftKey /\ ~TypingFocus

JumpTarget(d) == d * duration      \* in tenths of a millisecond

DigitJumps ==
    /\ Cardinality(Seeks) = 1
    /\ SeeksTo(JumpTarget(ParseInt(ev.key)), 10)
    /\ ev.key = "0" => SeeksTo(0, 10)
    /\ \A i \in Seeks : calls[i].num <= duration * calls[i].den
    /\ \A d \in 0..9 : \A i \in Seeks :
          /\ d < ParseInt(ev.key) => JumpTarget(d) < calls[i].num
          /\ d > ParseInt(ev.key) => JumpTarget(d) > calls[i].num

C9_Original == DigitPressed => DigitJumps

(* C9 as amended: for every digit d and duration D > 0, pressing d with no
   modifiers outside a typing context, and in v1 with no popup modal open,
   issues exactly one seek, to (d / 10) * D: 0 for digit 0, never past D, and
   strictly increasing in d. *)
C9_DigitJump ==
    (DigitPressed /\ ~(version = "v1" /\ popupOpen)) => DigitJumps

C9_Witness ==
    /\ DigitPressed /\ ev.key = "7" /\ version = "v2"
    /\ Cardinality(Seeks) = 1 /\ SeeksTo(7 * duration, 10)

(* C10: outside a typing context with no Ctrl/Alt/Meta, Shift+N calls next()
   exactly once and Shift+P calls back() exactly once, both HANDLED; a bare N or
   P calls no host method and is left UNHANDLED. *)
C10_TrackKeys ==
    (Handling /\ ~TypingFocus /\ ~AnyModifier /\ EvKey \in {"n", "p"}) =>
        IF ev.shiftKey
        THEN /\ EvKey = "n" => CountCalls(calls, "next") = 1
             /\ EvKey = "p" => CountCalls(calls, "back") = 1
             /\ prevented
        ELSE NoPlayerCall /\ ~prevented

----------------------------------------------------------------------------
(* Claims on the volume range, the mute key and the throttle timestamp *)

SetVolumes == {i \in 1..Len(calls) : calls[i].op = "setVolume"}

(* C11: with the host volume starting in [0, 1], after any sequence of key
   events (ArrowUp, ArrowDown, M and others, throttled or not) every value
   passed to setVolume is in [0, 1], and so is the host volume: ArrowUp at 1
   and ArrowDown at 0 never leave the range. *)
C11_VolumeInRange ==
    /\ \A i \in SetVolumes :
          /\ calls[i].den = VOLUME_FULL
          /\ 0 <= calls[i].num /\ calls[i].num <= VOLUME_FULL
    /\ 0 <= volume /\ volume <= VOLUME_FULL

\* ArrowUp committed at full volume: setVolume is passed 1, not 1.05
C11_Witness ==
    /\ Handling /\ EvKey = "arrowup"
    /\ lastCommit = now /\ prevCommit # NoTime
    /\ \E i \in SetVolumes : calls[i].num = VOLUME_FULL
    /\ volume = VOLUME_FULL

----------------------------------------------------------------------------
(* Claims on startup and registration *)

\* the host the revision needs is there
HostAvailable ==
    IF version = "v1" THEN spicetify \in {"noKeyboard", "ready"}
    ELSE spicetify = "ready"

(* C12: startup never fails permanently.  From every startup state (the host
   object entirely undefined, or defined without its Player) youtubeKeybinds
   is retried until the host is available: as long as the key handlers are
   not installed, a run of youtubeKeybinds is pending (the first call or a
   retry timer), so that once the host is available a retry installs them. *)
C12_NeverFailsPermanently == installed > 0 \/ pendingRuns > 0

(* C13: when registerShortcut throws for a shortcut, register catches and logs
   the failure and goes on: after the install no exception has left
   youtubeKeybinds, exactly the failing bindings are logged, every other
   binding is registered, and a keydown matching a registered binding runs
   that binding's handler. *)
C13_RegistrationIsolated ==
    (version = "v2" /\ installed > 0) =>
        /\ ~crashed
        /\ logged = regFailing
        /\ registered = Bindings \ regFailing
        /\ Handling =>
              \A b \in Bindings :
                  Matches(b, ev) =>
                      dispatched = (IF b \in regFailing THEN "none" ELSE b)

\* registering volumeUp failed; togglePlay, registered after it, still fires
C13_Witness ==
    /\ version = "v2" /\ installed > 0
    /\ regFailing = {"volumeUp"} /\ logged = {"volumeUp"}
    /\ Handling /\ dispatched = "togglePlay" /\ HasCall(calls, "togglePlay")

----------------------------------------------------------------------------
(* Claims on notifications, the mute key, unbound keys and the host calls
   of one keydown *)

ChangingCalls == {i \in 1..Len(calls) : calls[i].op \in ChangingOps}

(* C14: a notification failure is swallowed.  When showNotification throws
   during a keypress, the host action has still been committed, no exception
   leaves the key handler, and the keypress is HANDLED (its default action
   is prevented). *)
C14_NotificationSwallowed ==
    (Handling /\ notifyFails /\ HasCall(calls, "showNotification")) =>
        /\ ChangingCalls # {}
        /\ ~threw
        /\ prevented

\* A step that handles a plain M keydown (no Shift, Ctrl, Alt or Meta) outside
\* a typing context, on a host with the native toggleMute.
NativeMutePress ==
    /\ ev = NoEvent /\ ev' # NoEvent
    /\ ev'.key \in {"m", "M"}
    /\ ~ev'.shiftKey /\ ~ev'.ctrlKey /\ ~ev'.altKey /\ ~ev'.metaKey
    /\ ~TypingFocus
    /\ hasToggleMute

\* toggleMute called exactly once, setVolume not at all; the mute flag is
\* flipped and the volume kept, so that a second press restores both
TogglesNatively ==
    /\ CountCalls(calls', "toggleMute") = 1
    /\ ~HasCall(calls', "setVolume")
    /\ muted' = ~muted
    /\ volume' = volume

\* C15 as stated: every M press outside a typing context and without
\* modifiers calls the native toggleMute exactly once and never setVolume.
C15_Original == [][NativeMutePress => TogglesNatively]_vars

(* C15: on a host with the native toggleMute, every M press outside a typing
   context, without modifiers and (v1) with no popup modal open calls
   toggleMute exactly once and never setVolume: it flips the mute flag and
   keeps the volume, so two consecutive M presses leave mute state and volume
   as they were before the first. *)
C15_NativeMute == [][(NativeMutePress /\ ~(version = "v1" /\ popupOpen)) => TogglesNatively]_vars

\* after the second of two M presses: muted again as at the start, the volume
\* never changed
C15_Witness ==
    /\ Handling /\ EvKey = "m" /\ hasToggleMute
    /\ CountCalls(calls, "toggleMute") = 1
    /\ ~muted /\ volume = StartVolume /\ lastCommit = NoTime

\* the keys of the binding table, as event.key in lower case
BoundKeys ==
    {"arrowleft", "arrowright", "arrowup", "arrowdown", "j", "l", "k", "m", "n", "p"}
    \cup Digits

(* C16: a keydown of a key that is not in the binding table, in every focus
   context and player state, with or without Shift, calls no host method at
   all, throws nothing and is left UNHANDLED. *)
C16_UnboundKey ==
    (Handling /\ EvKey \notin BoundKeys) =>
        /\ calls = <<>>
        /\ dispatched = "none"
        /\ ~threw
        /\ ~prevented

\* an unbound key pressed with the page focused and a track loaded
C16_Witness ==
    /\ Handling /\ EvKey \notin BoundKeys
    /\ ~AnyModifier /\ ~TypingFocus /\ ~popupOpen /\ duration > 0
    /\ calls = <<>> /\ ~prevented

\* A step that handles a plain M keydown outside a typing context, on a host
\* without toggleMute.
FallbackMutePress ==
    /\ ev = NoEvent /\ ev' # NoEvent
    /\ ev'.key \in {"m", "M"}
    /\ ~ev'.shiftKey /\ ~ev'.ctrlKey /\ ~ev'.altKey /\ ~ev'.metaKey
    /\ ~TypingFocus
    /\ ~hasToggleMute

\* the volume the fallback sets: 0 above silence, else 0.5
FallbackVolume == IF volume > 0 THEN 0 ELSE UNMUTE_LEVEL

(* C17: on a host without toggleMute an M press falls back to the volume
   policy without error: nothing is thrown, toggleMute is not invoked, and
   exactly one setVolume is made, to 0 when the volume is above 0 and to 0.5
   otherwise. *)
C17_MuteFallback ==
    [][FallbackMutePress =>
          /\ ~threw'
          /\ ~HasCall(calls', "toggleMute")
          /\ CountCalls(calls', "setVolume") = 1
          /\ \A i \in 1..Len(calls') :
                calls'[i].op = "setVolume" =>
                    calls'[i].num = FallbackVolume /\ calls'[i].den = VOLUME_FULL
          /\ volume' = FallbackVolume]_vars

\* a step that handles a keydown
KeydownStep == ev = NoEvent /\ ev' # NoEvent

\* the keydown handled by the step ran the volume-change action
VolumeAttempt == KeydownStep /\ dispatched' \in {"volumeUp", "volumeDown"}

(* C18: the throttle timestamp changes only when a volume change is
   committed, and is then set to the time of that commit, never to an earlier
   time than it held; a rejected attempt is a complete no-op (no getVolume, no
   setVolume, timestamp and host volume unchanged); every key other than
   ArrowUp and ArrowDown, and the passing of time, leave the timestamp
   unchanged. *)
C18_TimestampFrame ==
    [][/\ lastVolChange' # lastVolChange =>
             /\ VolumeAttempt /\ HasCall(calls', "setVolume")
             /\ lastVolChange' = now'
             /\ lastVolChange' > lastVolChange
       /\ (VolumeAttempt /\ HasCall(calls', "setVolume")) => lastVolChange' = now'
       /\ (VolumeAttempt /\ ~HasCall(calls', "setVolume")) =>
             /\ calls' = <<>>
             /\ lastVolChange' = lastVolChange
             /\ volume' = volume /\ muted' = muted
       /\ (KeydownStep /\ ToLowerCase(ev'.key) \notin {"arrowup", "arrowdown"}) =>
             lastVolChange' = lastVolChange]_vars

\* a rejected attempt, 99 ms after a committed change: the timestamp still
\* holds the time of that commit
C18_Witness ==
    /\ Handling /\ dispatched \in {"volumeUp", "volumeDown"}
    /\ calls = <<>>
    /\ lastCommit # NoTime /\ lastVolChange = lastCommit
    /\ now - lastVolChange = VOLUME_THROTTLE_MS - 1

(* C19: every single keydown results in at most one state-changing host call
   (seek, setVolume, togglePlay, toggleMute, next, back).  In particular a K
   press never calls togglePlay more than once and never play() or pause(),
   and a K press that runs the toggle-play action calls togglePlay exactly
   once. *)
C19_OneChangePerKey ==
    Handling =>
        /\ Cardinality(ChangingCalls) <= 1
        /\ EvKey = "k" =>
              /\ CountCalls(calls, "togglePlay") <= 1
              /\ ~HasCall(calls, "play") /\ ~HasCall(calls, "pause")
              /\ dispatched = "togglePlay" => CountCalls(calls, "togglePlay") = 1

\* a K press that toggled playback: togglePlay is its only state-changing call
C19_Witness ==
    /\ Handling /\ EvKey = "k" /\ dispatched = "togglePlay"
    /\ CountCalls(calls, "togglePlay") = 1
    /\ Cardinality(ChangingCalls) = 1

----------------------------------------------------------------------------
(* C20: the startup retries *)

\* a step in which youtubeKeybinds ran
StartupRun ==
    <<pendingRuns, retries, installed, crashed>>' # <<pendingRuns, retries, installed, crashed>>

\* the run scheduled exactly one retry and installed nothing
ScheduledRetry ==
    /\ retries' = retries + 1 /\ pendingRuns' = 1
    /\ installed' = installed /\ installed' = 0

\* the run installed the key handlers, on an available host, and scheduled no retry
InstalledHandlers ==
    /\ installed' = installed + 1 /\ installed' = 1
    /\ retries' = retries /\ pendingRuns' = 0
    /\ HostAvailable'

(* C20: across any number of startup retries, each run of youtubeKeybinds
   either schedules exactly one retry and installs nothing, or installs the
   key handlers and schedules no retry; hence the handlers are never
   installed while the host is unavailable, at most one retry timer is
   pending, and the handlers are installed at most once. *)
C20_RetryOrInstall ==
    [][/\ StartupRun => (ScheduledRetry \/ InstalledHandlers)
       /\ pendingRuns' <= 1
       /\ installed' <= 1
       /\ installed' > 0 => HostAvailable']_vars

=============================================================================
